---- MODULE Spec2Model ----
(***************************************************************************)
(* Job / status coordination core of the form-extraction backend:          *)
(* the queue endpoints of main.py, the Celery tasks of tasks.py, the       *)
(* Firestore helpers of database/firestore.py and the result backend       *)
(* configured in celery_app.py.                                            *)
(*                                                                         *)
(* Every store call, download, engine call and file-system call of a       *)
(* handler or task is one step; several gateway processes and several      *)
(* workers run these steps interleaved.  Python None is the empty          *)
(* sequence <<>> and a fetched document d is <<d>>.  Sizes are in          *)
(* hundredths of a megabyte.                                               *)
(***************************************************************************)
EXTENDS Integers, Sequences, FiniteSets, TLC

\* ---- bounds -------------------------------------------------------------
MaxReq == 2
MaxUp == 2
MaxSideReq == 1
MaxSideUp == 1
MaxFolderOps == 2
MaxItems == 600
MaxClock == 1

\* ---- program constants --------------------------------------------------
WorkerConcurrency == 2

Requests == 1..MaxReq
Uploads == 1..MaxUp
TaskIds == 1..(MaxReq + MaxUp)

ExtractTaskId(r) == r
UploadTaskId(u) == MaxReq + u

BucketUrl == "https://storage.googleapis.com/display-form-extract/"
AllowedQueueExt == {".jpg", ".jpeg", ".png", ".bmp", ".webp"}

VARIABLES
    items,      \* Firestore collection imagedetail: name -> document
    forms,      \* Firestore collection forminformation: name -> document
    blobs,      \* bucket: object key -> content
    files,      \* UPLOAD_FOLDER, files of extract_form_task: name -> bytes
    uptemp,     \* UPLOAD_FOLDER, enqueue_<uuid> files of queue_upload_image
    hpc,        \* queue_extract_form: position of each request
    data,       \* ExtractFormData of the request = args of its task
    hexisting,  \* queue_extract_form: local `existing`
    hresp,      \* queue_extract_form: response
    hwarn,      \* queue_extract_form: the pre-mark warning was logged
    jpc,        \* extract_form_task: position of each task
    jexisting,  \* extract_form_task: local `existing` (bound or not)
    jresult,    \* extract_form_task: local `result`
    jsize,      \* extract_form_task: local `size`
    jerr,       \* extract_form_task: the exception being propagated
    upc,        \* queue_upload_image / upload_image_task: position
    udata,      \* args of upload_image_task
    backend,    \* Celery result backend: task id -> stored meta
    lastPoll,   \* state returned by the latest GET /tasks/{id}
    folders,    \* Firestore collection imagefolders: document id -> document
    fop,        \* the folder request being served: position and locals
    clock,      \* the wall clock of the hosts, in milliseconds
    crud        \* the latest /images/ request served and its response

vars == <<items, forms, blobs, files, uptemp, hpc, data, hexisting, hresp,
          hwarn, jpc, jexisting, jresult, jsize, jerr, upc, udata, backend,
          lastPoll, folders, fop, clock, crud>>

storeVars == <<items, forms, blobs, files, uptemp>>
handlerVars == <<hpc, data, hexisting, hresp, hwarn>>
jobVars == <<jpc, jexisting, jresult, jsize, jerr>>
uploadVars == <<upc, udata>>
folderVars == <<folders, fop>>
itemReqVars == <<clock, crud>>

\* ---- documents ----------------------------------------------------------
ImageData(status, name, path, created, folder, size) ==
    [Status |-> status, ImageName |-> name, ImagePath |-> path,
     CreatedAt |-> created, FolderPath |-> folder, Size |-> size]

FormDoc(name, path, created, folder, size, result) ==
    [Status |-> "Completed", ImageName |-> name, ImagePath |-> path,
     CreatedAt |-> created, FolderPath |-> folder, Size |-> size,
     analysis_result |-> result]

\* variant: the document is written only if it does not exist yet
upsert_imageKeepsExisting(coll, doc, key) ==
    [k \in DOMAIN coll \cup {key} |->
        IF k = key /\ key \notin DOMAIN coll THEN doc ELSE coll[k]]

\* doc_ref.set(data_dict): the document is replaced as a whole
upsert_image(coll, doc, key) ==
    [k \in DOMAIN coll \cup {key} |-> IF k = key THEN doc ELSE coll[k]]

\* doc.to_dict() if doc.exists else None
get_image(coll, name) ==
    IF name \in DOMAIN coll THEN <<coll[name]>> ELSE <<>>

\* the fields of `existing` that extract_form_task reads
TaskView(opt) ==
    IF opt = <<>> THEN <<>>
    ELSE <<[CreatedAt |-> opt[1].CreatedAt, FolderPath |-> opt[1].FolderPath,
            Size |-> opt[1].Size]>>

\* (existing or {}).get(field, default)
DictGet(opt, field, default) ==
    IF opt = <<>> THEN default ELSE opt[1][field]

\* Python `a or b` on strings and on numbers
OrStr(a, b) == IF a # "" THEN a ELSE b
OrNum(a, b) == IF a # 0 THEN a ELSE b

\* blob.upload_from_filename(source_file_path): the object is (re)written
upload_image_to_gcs(bucket, content, key) ==
    [k \in DOMAIN bucket \cup {key} |-> IF k = key THEN content ELSE bucket[k]]

\* no folder request is being served
NoFolderOp ==
    [kind |-> "none", pc |-> "idle", path |-> <<>>, new |-> <<>>, sent |-> 0,
     col |-> "none", stream |-> {}, listed |-> <<>>, keys |-> <<>>,
     pos |-> 0, count |-> 0, batch |-> {}, commits |-> <<>>, resp |-> "none"]

NoFolders == [k \in {} |-> [FolderPath |-> <<>>, CreatedAt |-> 0]]

\* no /images/ request has been served
NoCrud == [kind |-> "none", name |-> "", doc |-> <<>>, resp |-> <<>>]

\* ---- inputs -------------------------------------------------------------
UploadedSize == 120

GcsUrl(folder, name) ==
    BucketUrl \o (IF folder # "" THEN folder \o "/" \o name ELSE name)

\* what the front end posts: the full record of the item, or only its name
\* and URL with the optional fields left at their defaults.  The requests
\* for the item of the initial state are sparse, the requests for the name
\* that only an upload creates are full.
FullPayload(n, created) ==
    [ImageName |-> n, ImagePath |-> GcsUrl("", n), Size |-> UploadedSize,
     Status |-> "Uploaded", CreatedAt |-> created, FolderPath |-> ""]
SparsePayload(n) ==
    [ImageName |-> n, ImagePath |-> GcsUrl("", n), Size |-> 0,
     Status |-> "Uploaded", CreatedAt |-> "", FolderPath |-> ""]

Payloads ==
    {SparsePayload("t1.jpg"), FullPayload("t2.jpg", "t2")}

NoData == SparsePayload("")

\* ---- extraction engine --------------------------------------------------
\* response.content of the model: a JSON object, other JSON, or no JSON
Contents == {"json_object", "json_other", "not_json"}

\* variant: JSONDecodeError is not caught
post_processingUncaught(content) ==
    CASE content = "json_object" -> [type |-> "dict", tag |-> "fields"]
      [] content = "json_other"  -> [type |-> "list", tag |-> "json"]
      [] OTHER                   -> [type |-> "raise", tag |-> "error"]

\* TicketChatBot.post_processing: json.loads, JSONDecodeError -> error dict
post_processing(content) ==
    CASE content = "json_object" -> [type |-> "dict", tag |-> "fields"]
      [] content = "json_other"  -> [type |-> "list", tag |-> "json"]
      [] OTHER                   -> [type |-> "dict", tag |-> "error"]

\* if not isinstance(result, dict): result = {"raw": str(result)}
WrapResult(result) ==
    IF result.type = "dict" THEN result ELSE [type |-> "dict", tag |-> "raw"]

NoResult == [type |-> "none", tag |-> "none"]

\* ---- result backend -----------------------------------------------------
NoMeta == [state |-> "PENDING", result |-> "none"]
Meta(state, result) == [state |-> state, result |-> result]

\* AsyncResult(task_id).state: the stored state, PENDING when nothing stored
AsyncResultState(id) == backend[id].state

RunningPcs == {"mark_read", "mark_write", "download", "analyze", "size_read",
               "save_form", "save_item", "cleanup", "fail_cleanup"}
UploadRunningPcs == {"gcs_upload", "upsert", "remove"}

\* the state of the task as the worker has it
JobState(r) ==
    CASE jpc[r] = "none"       -> "NONE"
      [] jpc[r] = "queued"     -> "PENDING"
      [] jpc[r] \in RunningPcs -> "STARTED"
      [] jpc[r] = "done"       -> "SUCCESS"
      [] OTHER                 -> "FAILURE"

Busy ==
    Cardinality({r \in Requests : jpc[r] \in RunningPcs})
    + Cardinality({u \in Uploads : upc[u] \in UploadRunningPcs})

\* ---- initial state: one uploaded item, nothing queued -------------------
Init ==
    /\ items = [n \in {"t1.jpg"} |->
                  ImageData("Uploaded", n, GcsUrl("", n), "t1", "", UploadedSize)]
    /\ forms = [n \in {} |-> NoData]
    /\ blobs = [k \in {"t1.jpg"} |-> "bytes_t1"]
    /\ files = [n \in {} |-> ""]
    /\ uptemp = {}
    /\ hpc = [r \in Requests |-> "idle"]
    /\ data = [r \in Requests |-> NoData]
    /\ hexisting = [r \in Requests |-> <<>>]
    /\ hresp = [r \in Requests |-> "none"]
    /\ hwarn = [r \in Requests |-> FALSE]
    /\ jpc = [r \in Requests |-> "none"]
    /\ jexisting = [r \in Requests |-> [bound |-> FALSE, doc |-> <<>>]]
    /\ jresult = [r \in Requests |-> NoResult]
    /\ jsize = [r \in Requests |-> 0]
    /\ jerr = [r \in Requests |-> "none"]
    /\ upc = [u \in Uploads |-> "idle"]
    /\ udata = [u \in Uploads |->
                  [status |-> "", folder |-> "", ext |-> "", name |-> ""]]
    /\ backend = [id \in TaskIds |-> NoMeta]
    /\ lastPoll = [id \in TaskIds |-> "none"]
    /\ folders = NoFolders
    /\ fop = NoFolderOp
    /\ clock = 0
    /\ crud = NoCrud

\* ---- POST /queue/extract-form (main.py queue_extract_form) --------------
\* variant: the existence check is missing
QueueGuardNoExistCheck(existing) ==
    IF existing # <<>> /\ existing[1].Status = "Processing"
    THEN "already_processing"
    ELSE "accept"

\* variant: the Processing check is missing
QueueGuardNoDedup(existing) ==
    IF existing = <<>> THEN "not_found" ELSE "accept"

\* variant: the status literal of the Processing check is misspelt
QueueGuardMisspelt(existing) ==
    IF existing = <<>> THEN "not_found"
    ELSE IF existing[1].Status = "processing" THEN "already_processing"
    ELSE "accept"

\* the two guards of the handler on the record it has read
QueueGuard(existing) ==
    IF existing = <<>> THEN "not_found"
    ELSE IF existing[1].Status = "Processing" THEN "already_processing"
    ELSE "accept"

\* processing_meta of the handler: request values, stored values as fallback
HandlerProcessingMeta(d, existing) ==
    ImageData("Processing", d.ImageName,
              OrStr(d.ImagePath, DictGet(existing, "ImagePath", "")),
              OrStr(d.CreatedAt, DictGet(existing, "CreatedAt", "")),
              OrStr(d.FolderPath, DictGet(existing, "FolderPath", "")),
              OrNum(d.Size, DictGet(existing, "Size", 0)))

\* existing = get_image(...); 404 if absent; already_processing if Processing
QueueExtractRead(r) ==
    /\ hpc[r] = "idle"
    /\ \E d \in Payloads :
         LET existing == get_image(items, d.ImageName)
             g == QueueGuard(existing)
         IN /\ data' = [data EXCEPT ![r] = d]
            /\ IF g = "accept"
               THEN /\ hpc' = [hpc EXCEPT ![r] = "mark"]
                    /\ hexisting' = [hexisting EXCEPT ![r] = existing]
                    /\ UNCHANGED hresp
               ELSE /\ hpc' = [hpc EXCEPT ![r] = "done"]
                    /\ hresp' = [hresp EXCEPT ![r] = g]
                    /\ UNCHANGED hexisting
    /\ UNCHANGED <<folderVars, itemReqVars>>
    /\ UNCHANGED <<storeVars, hwarn, jobVars, uploadVars, backend, lastPoll>>

\* variant: a failed Processing write fails the request
QueueExtractMarkFatal(r) ==
    /\ hpc[r] = "mark"
    /\ \/ /\ items' = upsert_image(items,
                         HandlerProcessingMeta(data[r], hexisting[r]),
                         data[r].ImageName)
          /\ hpc' = [hpc EXCEPT ![r] = "enqueue"]
          /\ UNCHANGED <<hwarn, hresp>>
       \/ /\ hwarn' = [hwarn EXCEPT ![r] = TRUE]
          /\ hpc' = [hpc EXCEPT ![r] = "done"]
          /\ hresp' = [hresp EXCEPT ![r] = "error"]
          /\ UNCHANGED items
    /\ UNCHANGED <<folderVars, itemReqVars>>
    /\ UNCHANGED <<forms, blobs, files, uptemp, data, hexisting,
                   jobVars, uploadVars, backend, lastPoll>>

\* try: upsert_image(processing_meta, ...)  except: logger.warning(...)
QueueExtractMark(r) ==
    /\ hpc[r] = "mark"
    /\ \/ /\ items' = upsert_image(items,
                         HandlerProcessingMeta(data[r], hexisting[r]),
                         data[r].ImageName)
          /\ UNCHANGED hwarn
       \/ /\ hwarn' = [hwarn EXCEPT ![r] = TRUE]
          /\ UNCHANGED items
    /\ hpc' = [hpc EXCEPT ![r] = "enqueue"]
    /\ UNCHANGED <<folderVars, itemReqVars>>
    /\ UNCHANGED <<forms, blobs, files, uptemp, data, hexisting, hresp,
                   jobVars, uploadVars, backend, lastPoll>>

\* task = extract_form_task.apply_async(args=[...]); return queued
QueueExtractEnqueue(r) ==
    /\ hpc[r] = "enqueue"
    /\ jpc' = [jpc EXCEPT ![r] = "queued"]
    /\ hresp' = [hresp EXCEPT ![r] = "queued"]
    /\ hpc' = [hpc EXCEPT ![r] = "done"]
    /\ hexisting' = [hexisting EXCEPT ![r] = <<>>]
    /\ UNCHANGED <<folderVars, itemReqVars>>
    /\ UNCHANGED <<storeVars, data, hwarn, jexisting, jresult,
                   jsize, jerr, uploadVars, backend, lastPoll>>

\* ---- tasks.extract_form (tasks.py extract_form_task) --------------------
\* processing_meta of the task: args, the record just read as fallback
TaskProcessingMeta(d, existing) ==
    ImageData("Processing", d.ImageName, d.ImagePath,
              OrStr(d.CreatedAt, DictGet(existing, "CreatedAt", "")),
              OrStr(d.FolderPath, DictGet(existing, "FolderPath", "")),
              OrNum(d.Size, DictGet(existing, "Size", 0)))

\* form_doc written to forminformation
TaskFormDoc(d, size, result) ==
    FormDoc(d.ImageName, d.ImagePath, d.CreatedAt, d.FolderPath, size, result)

\* variant: the final write keeps the status the request carried
TaskCompletedMetaKeepsStatus(d, size) ==
    ImageData(d.Status, d.ImageName, d.ImagePath, d.CreatedAt,
              d.FolderPath, size)

\* meta written to imagedetail after the extraction
TaskCompletedMeta(d, size) ==
    ImageData("Completed", d.ImageName, d.ImagePath, d.CreatedAt,
              d.FolderPath, size)

\* variant: the except branch rolls the status back to the request's status
TaskExceptItemsRollback(coll, d) ==
    upsert_image(coll,
                 ImageData(d.Status, d.ImageName, d.ImagePath, d.CreatedAt,
                           d.FolderPath, d.Size),
                 d.ImageName)

\* the except branch of the task issues no store write
TaskExceptItems(coll, d) == coll

\* variant: the result of the task is not stored (ignore_result)
MetaOnReturnIgnored(result) == [state |-> "PENDING", result |-> "none"]

\* meta stored by Celery when the task returns / raises
MetaOnReturn(result) == Meta("SUCCESS", "result")
MetaOnRaise(exc) == Meta("FAILURE", "error")

\* variant: a raising step sends the task back to the queue (self.retry)
RaiseRetries(r, exc) ==
    /\ jerr' = [jerr EXCEPT ![r] = "none"]
    /\ jpc' = [jpc EXCEPT ![r] = "queued"]

\* a step of the task raised: control goes to the except branch
Raise(r, exc) ==
    /\ jerr' = [jerr EXCEPT ![r] = exc]
    /\ jpc' = [jpc EXCEPT ![r] = "fail_cleanup"]

\* variant: every task has a temp file of its own
local_pathPerTask(r) == data[r].ImageName \o "_" \o ToString(r)

\* local_path = os.path.join(_config.UPLOAD_FOLDER, image_name)
local_path(r) == data[r].ImageName

\* a worker of the pool picks the task up; task_track_started stores STARTED
TaskStart(r) ==
    /\ jpc[r] = "queued"
    /\ Busy < WorkerConcurrency
    /\ jpc' = [jpc EXCEPT ![r] = "mark_read"]
    /\ backend' = [backend EXCEPT ![ExtractTaskId(r)] = Meta("STARTED", "none")]
    /\ UNCHANGED <<folderVars, itemReqVars>>
    /\ UNCHANGED <<storeVars, handlerVars, jexisting, jresult, jsize, jerr,
                   uploadVars, lastPoll>>

\* existing = get_image(...) or {}   (inside the non-fatal try)
TaskMarkRead(r) ==
    /\ jpc[r] = "mark_read"
    /\ \/ /\ jexisting' = [jexisting EXCEPT ![r] =
                 [bound |-> TRUE,
                  doc |-> TaskView(get_image(items, data[r].ImageName))]]
          /\ jpc' = [jpc EXCEPT ![r] = "mark_write"]
       \/ /\ jpc' = [jpc EXCEPT ![r] = "download"]
          /\ UNCHANGED jexisting
    /\ UNCHANGED <<folderVars, itemReqVars>>
    /\ UNCHANGED <<storeVars, handlerVars, jresult, jsize, jerr, uploadVars,
                   backend, lastPoll>>

\* upsert_image(processing_meta, ...)   (inside the non-fatal try)
TaskMarkWrite(r) ==
    /\ jpc[r] = "mark_write"
    /\ \/ items' = upsert_image(items,
                      TaskProcessingMeta(data[r], jexisting[r].doc),
                      data[r].ImageName)
       \/ UNCHANGED items
    /\ jpc' = [jpc EXCEPT ![r] = "download"]
    /\ UNCHANGED <<folderVars, itemReqVars>>
    /\ UNCHANGED <<forms, blobs, files, uptemp, handlerVars, jexisting,
                   jresult, jsize, jerr, uploadVars, backend, lastPoll>>

\* download_image_from_url_sync(image_url, local_path)
TaskDownload(r) ==
    /\ jpc[r] = "download"
    /\ \/ /\ files' = upsert_image(files, data[r].ImagePath, local_path(r))
          /\ jpc' = [jpc EXCEPT ![r] = "analyze"]
          /\ UNCHANGED jerr
       \/ /\ Raise(r, "download")
          /\ UNCHANGED files
    /\ UNCHANGED <<folderVars, itemReqVars>>
    /\ UNCHANGED <<items, forms, blobs, uptemp, handlerVars, jexisting,
                   jresult, jsize, uploadVars, backend, lastPoll>>

\* the size fallback needs a store read only if `existing` is unbound
NeedsSizeRead(r) == data[r].Size = 0 /\ ~jexisting[r].bound

\* size = size or existing.get("Size", 0.0)
ResolvedSize(d, existing) == OrNum(d.Size, DictGet(existing, "Size", 0))

\* result = _bot.analyze_ticket_sync(local_path, ""); non-dict is wrapped
TaskAnalyze(r) ==
    /\ jpc[r] = "analyze"
    /\ \/ /\ Raise(r, "engine")
          /\ UNCHANGED <<jresult, jsize>>
       \/ /\ local_path(r) \in DOMAIN files
          /\ \E c \in Contents :
               LET result == post_processing(c) IN
               IF result.type = "raise"
               THEN /\ Raise(r, "parse")
                    /\ UNCHANGED <<jresult, jsize>>
               ELSE /\ jresult' = [jresult EXCEPT ![r] = WrapResult(result)]
                    /\ UNCHANGED jerr
                    /\ IF NeedsSizeRead(r)
                       THEN /\ jpc' = [jpc EXCEPT ![r] = "size_read"]
                            /\ UNCHANGED jsize
                       ELSE /\ jpc' = [jpc EXCEPT ![r] = "save_form"]
                            /\ jsize' = [jsize EXCEPT ![r] =
                                 ResolvedSize(data[r], jexisting[r].doc)]
    /\ UNCHANGED <<folderVars, itemReqVars>>
    /\ UNCHANGED <<storeVars, handlerVars, jexisting, uploadVars, backend,
                   lastPoll>>

\* if 'existing' not in locals(): existing = get_image(...) or {}
TaskSizeRead(r) ==
    /\ jpc[r] = "size_read"
    /\ \/ LET existing == TaskView(get_image(items, data[r].ImageName)) IN
          /\ jexisting' = [jexisting EXCEPT ![r] =
                              [bound |-> TRUE, doc |-> existing]]
          /\ jsize' = [jsize EXCEPT ![r] = ResolvedSize(data[r], existing)]
          /\ jpc' = [jpc EXCEPT ![r] = "save_form"]
          /\ UNCHANGED jerr
       \/ /\ Raise(r, "store_read")
          /\ UNCHANGED <<jexisting, jsize>>
    /\ UNCHANGED <<folderVars, itemReqVars>>
    /\ UNCHANGED <<storeVars, handlerVars, jresult, uploadVars, backend,
                   lastPoll>>

\* upsert_image(form_doc, COLLECTION_NAME_FORM_EXTRACT, image_name)
TaskSaveForm(r) ==
    /\ jpc[r] = "save_form"
    /\ \/ /\ forms' = upsert_image(forms,
                         TaskFormDoc(data[r], jsize[r], jresult[r]),
                         data[r].ImageName)
          /\ jpc' = [jpc EXCEPT ![r] = "save_item"]
          /\ UNCHANGED jerr
       \/ /\ Raise(r, "save_form")
          /\ UNCHANGED forms
    /\ UNCHANGED <<folderVars, itemReqVars>>
    /\ UNCHANGED <<items, blobs, files, uptemp, handlerVars, jexisting,
                   jresult, jsize, uploadVars, backend, lastPoll>>

\* upsert_image(meta, COLLECTION_NAME_IMAGE_DETAIL, image_name)
TaskSaveItem(r) ==
    /\ jpc[r] = "save_item"
    /\ \/ /\ items' = upsert_image(items,
                         TaskCompletedMeta(data[r], jsize[r]),
                         data[r].ImageName)
          /\ jpc' = [jpc EXCEPT ![r] = "cleanup"]
          /\ UNCHANGED jerr
       \/ /\ Raise(r, "save_item")
          /\ UNCHANGED items
    /\ UNCHANGED <<folderVars, itemReqVars>>
    /\ UNCHANGED <<forms, blobs, files, uptemp, handlerVars, jexisting,
                   jresult, jsize, uploadVars, backend, lastPoll>>

\* os.remove(path), a missing file is tolerated
RemoveFile(fs, path) == [p \in DOMAIN fs \ {path} |-> fs[p]]

\* the locals of a finished task are gone
DropLocals(r) ==
    /\ jexisting' = [jexisting EXCEPT ![r] = [bound |-> FALSE, doc |-> <<>>]]
    /\ jresult' = [jresult EXCEPT ![r] = NoResult]
    /\ jsize' = [jsize EXCEPT ![r] = 0]
    /\ jerr' = [jerr EXCEPT ![r] = "none"]

\* os.remove(local_path); return {...}: Celery stores SUCCESS
TaskCleanup(r) ==
    /\ jpc[r] = "cleanup"
    /\ files' = RemoveFile(files, local_path(r))
    /\ backend' = [backend EXCEPT ![ExtractTaskId(r)] = MetaOnReturn(jresult[r])]
    /\ jpc' = [jpc EXCEPT ![r] = "done"]
    /\ DropLocals(r)
    /\ UNCHANGED <<folderVars, itemReqVars>>
    /\ UNCHANGED <<items, forms, blobs, uptemp, handlerVars, uploadVars,
                   lastPoll>>

\* except: remove local_path if it exists; raise: Celery stores FAILURE
TaskFailCleanup(r) ==
    /\ jpc[r] = "fail_cleanup"
    /\ files' = RemoveFile(files, local_path(r))
    /\ items' = TaskExceptItems(items, data[r])
    /\ backend' = [backend EXCEPT ![ExtractTaskId(r)] = MetaOnRaise(jerr[r])]
    /\ jpc' = [jpc EXCEPT ![r] = "failed"]
    /\ DropLocals(r)
    /\ UNCHANGED <<folderVars, itemReqVars>>
    /\ UNCHANGED <<forms, blobs, uptemp, handlerVars, uploadVars, lastPoll>>

ExtractNext ==
    \E r \in Requests :
        \/ QueueExtractRead(r)
        \/ QueueExtractMark(r)
        \/ QueueExtractEnqueue(r)
        \/ TaskStart(r)
        \/ TaskMarkRead(r)
        \/ TaskMarkWrite(r)
        \/ TaskDownload(r)
        \/ TaskAnalyze(r)
        \/ TaskSizeRead(r)
        \/ TaskSaveForm(r)
        \/ TaskSaveItem(r)
        \/ TaskCleanup(r)
        \/ TaskFailCleanup(r)

Spec == Init /\ [][ExtractNext]_vars

\* ---- POST /queue/upload-image and tasks.upload_image --------------------
UploadExts == {".jpg", ".gif"}
\* time.strftime("%Y%m%d_%H%M%S") + "_mmm" at a reading of the clock: one
\* stamp per millisecond ("t1" is the stamp of the item of the initial state)
ClockStamp(c) == "t" \o ToString(c + 2)

UploadStamps == {ClockStamp(c) : c \in 0..MaxClock}

\* time.strftime(...) + "_mmm" + ext
TimestampName(stamp, ext) == stamp \o ext

\* the extension check, the temp file enqueue_<uuid><ext>, apply_async
QueueUpload(u) ==
    /\ upc[u] = "idle"
    /\ \E ext \in UploadExts :
         IF ext \notin AllowedQueueExt
         THEN /\ upc' = [upc EXCEPT ![u] = "rejected"]
              /\ UNCHANGED <<uptemp, udata>>
         ELSE /\ uptemp' = uptemp \cup {u}
              /\ udata' = [udata EXCEPT ![u] =
                    [status |-> "Uploaded", folder |-> "", ext |-> ext,
                     name |-> ""]]
              /\ upc' = [upc EXCEPT ![u] = "queued"]
    /\ UNCHANGED <<folderVars, itemReqVars>>
    /\ UNCHANGED <<items, forms, blobs, files, handlerVars, jobVars, backend,
                   lastPoll>>

UploadTaskStart(u) ==
    /\ upc[u] = "queued"
    /\ Busy < WorkerConcurrency
    /\ upc' = [upc EXCEPT ![u] = "gcs_upload"]
    /\ backend' = [backend EXCEPT ![UploadTaskId(u)] = Meta("STARTED", "none")]
    /\ UNCHANGED <<folderVars, itemReqVars>>
    /\ UNCHANGED <<storeVars, handlerVars, jobVars, udata, lastPoll>>

\* `except Exception: raise` of upload_image_task: what is left of the
\* temp files when the task fails
UploadExceptTemp(tmp, u) == tmp

\* a step of upload_image_task raised: Celery stores FAILURE
UploadRaise(u) ==
    /\ upc' = [upc EXCEPT ![u] = "failed"]
    /\ uptemp' = UploadExceptTemp(uptemp, u)
    /\ backend' = [backend EXCEPT ![UploadTaskId(u)] = MetaOnRaise("upload")]

DestinationBlobName(folder, name) ==
    IF folder # "" THEN folder \o "/" \o name ELSE name

\* image_name = _timestamp_name(ext); upload_image_to_gcs(...)
UploadGcs(u) ==
    /\ upc[u] = "gcs_upload"
    /\ \/ /\ u \in uptemp
          /\ \E stamp \in {ClockStamp(clock)} :
               LET name == TimestampName(stamp, udata[u].ext) IN
               /\ udata' = [udata EXCEPT ![u].name = name]
               /\ blobs' = upload_image_to_gcs(blobs, "bytes_upload",
                             DestinationBlobName(udata[u].folder, name))
          /\ upc' = [upc EXCEPT ![u] = "upsert"]
          /\ UNCHANGED <<uptemp, backend>>
       \/ /\ UploadRaise(u)
          /\ UNCHANGED <<blobs, udata>>
    /\ UNCHANGED <<folderVars, itemReqVars>>
    /\ UNCHANGED <<items, forms, files, handlerVars, jobVars, lastPoll>>

\* CreatedAt = image_name.split(ext)[0]
StampOf(name, ext) == CHOOSE st \in UploadStamps : TimestampName(st, ext) = name

\* meta of upload_image_task
UploadMeta(d) ==
    ImageData(d.status, d.name, GcsUrl(d.folder, d.name),
              StampOf(d.name, d.ext), d.folder, UploadedSize)

\* upsert_image(meta, COLLECTION_NAME_IMAGE_DETAIL, meta.ImageName)
UploadUpsert(u) ==
    /\ upc[u] = "upsert"
    /\ \/ /\ items' = upsert_image(items, UploadMeta(udata[u]), udata[u].name)
          /\ upc' = [upc EXCEPT ![u] = "remove"]
          /\ UNCHANGED <<uptemp, backend>>
       \/ /\ UploadRaise(u)
          /\ UNCHANGED items
    /\ UNCHANGED <<folderVars, itemReqVars>>
    /\ UNCHANGED <<forms, blobs, files, udata, handlerVars, jobVars, lastPoll>>

\* os.remove(temp_local_path); return {...}: Celery stores SUCCESS
UploadRemove(u) ==
    /\ upc[u] = "remove"
    /\ uptemp' = uptemp \ {u}
    /\ upc' = [upc EXCEPT ![u] = "done"]
    /\ backend' = [backend EXCEPT ![UploadTaskId(u)] = Meta("SUCCESS", "result")]
    /\ UNCHANGED <<folderVars, itemReqVars>>
    /\ UNCHANGED <<items, forms, blobs, files, udata, handlerVars, jobVars,
                   lastPoll>>

UploadNext ==
    \E u \in Uploads :
        \/ QueueUpload(u)
        \/ UploadTaskStart(u)
        \/ UploadGcs(u)
        \/ UploadUpsert(u)
        \/ UploadRemove(u)


\* ---- GET /tasks/{task_id} and the expiry of stored results --------------
\* the ids a client holds: those returned by the two queue endpoints
Issued(id) ==
    \/ \E r \in Requests : id = ExtractTaskId(r) /\ hresp[r] = "queued"
    \/ \E u \in Uploads : id = UploadTaskId(u)
                           /\ upc[u] \notin {"idle", "unsent", "rejected"}

\* resp = {"task_id": task_id, "state": result.state, ...}
get_task_status(id) ==
    /\ Issued(id)
    /\ lastPoll' = [lastPoll EXCEPT ![id] = AsyncResultState(id)]
    /\ UNCHANGED <<folderVars, itemReqVars>>
    /\ UNCHANGED <<storeVars, handlerVars, jobVars, uploadVars, backend>>

\* result_expires: the stored meta of a finished task is deleted
Expired == [state |-> "PENDING", result |-> "expired"]

ResultExpires(id) ==
    /\ backend[id].state \in {"SUCCESS", "FAILURE"}
    /\ backend' = [backend EXCEPT ![id] = Expired]
    /\ UNCHANGED <<folderVars, itemReqVars>>
    /\ UNCHANGED <<storeVars, handlerVars, jobVars, uploadVars, lastPoll>>

PollNext ==
    \E id \in TaskIds : get_task_status(id) \/ ResultExpires(id)

\* ---- extraction requests next to uploads, next to polling ---------------
\* the requests beyond MaxSideReq and the uploads beyond MaxSideUp are never
\* sent
InitSide ==
    /\ Init!1 /\ Init!2 /\ Init!3 /\ Init!4 /\ Init!5
    /\ hpc = [r \in Requests |-> IF r <= MaxSideReq THEN "idle" ELSE "unsent"]
    /\ data = [r \in Requests |-> NoData]
    /\ hexisting = [r \in Requests |-> <<>>]
    /\ hresp = [r \in Requests |-> "none"]
    /\ hwarn = [r \in Requests |-> FALSE]
    /\ jpc = [r \in Requests |-> "none"]
    /\ jexisting = [r \in Requests |-> [bound |-> FALSE, doc |-> <<>>]]
    /\ jresult = [r \in Requests |-> NoResult]
    /\ jsize = [r \in Requests |-> 0]
    /\ jerr = [r \in Requests |-> "none"]
    /\ upc = [u \in Uploads |-> IF u <= MaxSideUp THEN "idle" ELSE "unsent"]
    /\ udata = [u \in Uploads |->
                  [status |-> "", folder |-> "", ext |-> "", name |-> ""]]
    /\ backend = [id \in TaskIds |-> NoMeta]
    /\ lastPoll = [id \in TaskIds |-> "none"]
    /\ folders = NoFolders
    /\ fop = NoFolderOp
    /\ clock = 0
    /\ crud = NoCrud

SpecUpload == InitSide /\ [][ExtractNext \/ UploadNext]_vars

SpecPoll == InitSide /\ [][ExtractNext \/ PollNext]_vars

\* ---- the worker pool on a full queue ------------------------------------
\* every extract request has been answered "queued" (the handlers'
\* Processing marks written) and one upload has been accepted: MaxReq
\* extract tasks of the uploaded item and one upload task wait in the
\* queue, more tasks than the pool has workers
QueuedUpload == [status |-> "Uploaded", folder |-> "", ext |-> ".jpg", name |-> ""]

InitQueued ==
    /\ items = [n \in {"t1.jpg"} |->
                  HandlerProcessingMeta(SparsePayload(n),
                      <<ImageData("Uploaded", n, GcsUrl("", n), "t1", "",
                                  UploadedSize)>>)]
    /\ forms = [n \in {} |-> NoData]
    /\ blobs = [k \in {"t1.jpg"} |-> "bytes_t1"]
    /\ files = [n \in {} |-> ""]
    /\ uptemp = {1}
    /\ hpc = [r \in Requests |-> "done"]
    /\ data = [r \in Requests |-> SparsePayload("t1.jpg")]
    /\ hexisting = [r \in Requests |-> <<>>]
    /\ hresp = [r \in Requests |-> "queued"]
    /\ hwarn = [r \in Requests |-> FALSE]
    /\ jpc = [r \in Requests |-> "queued"]
    /\ jexisting = [r \in Requests |-> [bound |-> FALSE, doc |-> <<>>]]
    /\ jresult = [r \in Requests |-> NoResult]
    /\ jsize = [r \in Requests |-> 0]
    /\ jerr = [r \in Requests |-> "none"]
    /\ upc = [u \in Uploads |-> IF u = 1 THEN "queued" ELSE "idle"]
    /\ udata = [u \in Uploads |->
                  IF u = 1 THEN QueuedUpload
                  ELSE [status |-> "", folder |-> "", ext |-> "", name |-> ""]]
    /\ backend = [id \in TaskIds |-> NoMeta]
    /\ lastPoll = [id \in TaskIds |-> "none"]
    /\ folders = NoFolders
    /\ fop = NoFolderOp
    /\ clock = 0
    /\ crud = NoCrud

\* the steps a worker takes on an extract task / on an upload task
WorkerExtract(r) ==
    \/ TaskStart(r)
    \/ TaskMarkRead(r)
    \/ TaskMarkWrite(r)
    \/ TaskDownload(r)
    \/ TaskAnalyze(r)
    \/ TaskSizeRead(r)
    \/ TaskSaveForm(r)
    \/ TaskSaveItem(r)
    \/ TaskCleanup(r)
    \/ TaskFailCleanup(r)

WorkerUpload(u) ==
    \/ UploadTaskStart(u)
    \/ UploadGcs(u)
    \/ UploadUpsert(u)
    \/ UploadRemove(u)

WorkerNext ==
    \/ \E r \in Requests : WorkerExtract(r)
    \/ \E u \in Uploads : WorkerUpload(u)

\* a free worker takes a waiting task, a worker that has a task runs its
\* next step: every call of a task returns or raises (the download has
\* timeout=30, the clients of the stores and of the engine their defaults)
WorkerFairness ==
    /\ \A r \in Requests : WF_vars(WorkerExtract(r))
    /\ \A u \in Uploads : WF_vars(WorkerUpload(u))

SpecWorkers == InitQueued /\ [][WorkerNext]_vars /\ WorkerFairness

\* ---- folders (main.py folder endpoints, firestore.py, ggc_storage.py) ---
\* A folder path and an object key are the sequences of the code points of
\* their characters: the store orders strings by their UTF-8 bytes, which is
\* the order of the code points.  Folder requests are served one at a time.
Slash == 47
Underscore == 95
Sentinel == 63743
RootId == <<114, 111, 111, 116>>

BatchSize == 450

PathA == <<97>>
PathB == <<98>>
PathAB == <<97, Slash, 98>>
PathAWide == <<97, Slash, 65313>>
PathAUnderB == <<97, Underscore, Underscore, 98>>
PathSibling == <<97, 98>>
NameX == <<120>>

\* what sanitize_folder_path returns for the paths the clients send: "a",
\* "b", "a/b", "a/" followed by FULLWIDTH LATIN CAPITAL LETTER A (U+FF21,
\* matched by \w), and "a__b"
FolderPaths == {PathA, PathB, PathAB, PathAWide, PathAUnderB}

\* s <= t in the order of the store
RECURSIVE StrLeq(_, _)
StrLeq(s, t) ==
    IF s = <<>> THEN TRUE
    ELSE IF t = <<>> THEN FALSE
    ELSE IF s[1] # t[1] THEN s[1] < t[1]
    ELSE StrLeq(Tail(s), Tail(t))

\* .where(field, ">=", lo).where(field, "<=", hi)
InRange(s, lo, hi) == StrLeq(lo, s) /\ StrLeq(s, hi)

StartsWith(s, p) == Len(s) >= Len(p) /\ SubSeq(s, 1, Len(p)) = p

\* a path below p in the folder tree
Descendant(s, p) == StartsWith(s, p \o <<Slash>>)

\* path.replace("/", "__") if path else "root"
RECURSIVE ReplaceSlash(_)
ReplaceSlash(p) ==
    IF p = <<>> THEN <<>>
    ELSE (IF p[1] = Slash THEN <<Underscore, Underscore>> ELSE <<p[1]>>)
         \o ReplaceSlash(Tail(p))

encode_path(p) == IF p # <<>> THEN ReplaceSlash(p) ELSE RootId

\* doc_ref.set({"FolderPath": path, "CreatedAt": now}, merge=True)
upsert_folder(coll, path, now) ==
    [k \in DOMAIN coll \cup {encode_path(path)} |->
        IF k = encode_path(path)
        THEN [FolderPath |-> path, CreatedAt |-> now]
        ELSE coll[k]]

\* [doc.to_dict().get("FolderPath", "") for doc in docs]
list_folders(coll) == {coll[k].FolderPath : k \in DOMAIN coll}

\* a batch of deletes applied to a collection
DeleteDocs(coll, ids) == [k \in DOMAIN coll \ ids |-> coll[k]]

\* FolderPath >= path + "/" and FolderPath <= path + "/"
SubfolderIds(coll, path) ==
    {k \in DOMAIN coll :
        InRange(coll[k].FolderPath, path \o <<Slash>>,
                path \o <<Slash, Sentinel>>)}

\* variant: the item scan matches the folder itself only
ItemIdsExact(coll, path) ==
    {k \in DOMAIN coll : coll[k].FolderPath = path}

\* FolderPath >= path and FolderPath <= path + ""
ItemIds(coll, path) ==
    {k \in DOMAIN coll :
        InRange(coll[k].FolderPath, path, path \o <<Sentinel>>)}

\* variant: the rename scan matches the folder and everything below it
RenameIdsPrefix(coll, old) ==
    {k \in DOMAIN coll :
        coll[k].FolderPath = old \/ Descendant(coll[k].FolderPath, old)}

\* .where("FolderPath", "==", old_path)
RenameIds(coll, old) ==
    {k \in DOMAIN coll : coll[k].FolderPath = old}

\* the stream of a query yields its documents in the order of their ids:
\* the documents not yet yielded, and the one yielded next
Rest(stream, pos) == {k \in stream : k > pos}
NextDoc(stream, pos) ==
    CHOOSE k \in Rest(stream, pos) : \A j \in Rest(stream, pos) : k <= j

\* bucket.list_blobs(prefix=prefix): the keys in the order of the store
RECURSIVE SortKeys(_)
SortKeys(keys) ==
    IF keys = {} THEN <<>>
    ELSE LET m == CHOOSE x \in keys : \A y \in keys : StrLeq(x, y)
         IN <<m>> \o SortKeys(keys \ {m})

\* the objects a listing returns, and their keys in the order yielded
list_blobs(bucket, prefix) ==
    [k \in {j \in DOMAIN bucket : StartsWith(j, prefix)} |-> bucket[k]]

\* blob.name.replace(old_prefix, new_prefix, 1) on a listed key
NewName(key, old_prefix, new_prefix) ==
    new_prefix \o SubSeq(key, Len(old_prefix) + 1, Len(key))

\* bucket.copy_blob(blob, bucket, new_name)
copy_blob(bucket, key, new_name) ==
    [k \in DOMAIN bucket \cup {new_name} |->
        IF k = new_name THEN bucket[key] ELSE bucket[k]]

\* the collection a position of firestore.delete_folder works on
CollOf(col) == IF col = "imagedetail" THEN items ELSE forms

\* variant: the batch is committed when it holds more than 450 deletes
BatchFullLate(count) == count > BatchSize

\* if count >= 450
BatchFull(count) == count >= BatchSize

\* the request is accepted: its locals are fresh
NewFolderOp(kind, path, new) ==
    [NoFolderOp EXCEPT !.kind = kind, !.path = path, !.new = new,
                       !.sent = fop.sent + 1]

\* datetime.utcnow() of the request being served: later requests, later time
Now == fop.sent + 1

\* variant: an exception of the metadata store is swallowed by the handler
StoreRaisedSwallowed(op) == [op EXCEPT !.pc = "blob_list"]

\* an exception of a store call propagates: the handler answers 500
StoreRaised(op) == [op EXCEPT !.pc = "idle", !.resp = "error"]

\* the handler returns
Returned(op) == [op EXCEPT !.pc = "idle", !.resp = "ok"]

Commit(op, col, n) ==
    [op EXCEPT !.commits = Append(@, [col |-> col, n |-> n])]

FolderFrame ==
    UNCHANGED <<files, uptemp, handlerVars, jobVars, uploadVars, backend,
                lastPoll, itemReqVars>>

\* POST /folders/: sanitize, upsert_folder
create_folder ==
    /\ fop.pc = "idle"
    /\ fop.sent < MaxFolderOps
    /\ \E p \in FolderPaths :
         \/ /\ folders' = upsert_folder(folders, p, Now)
            /\ fop' = Returned(NewFolderOp("create", p, <<>>))
         \/ /\ UNCHANGED folders
            /\ fop' = StoreRaised(NewFolderOp("create", p, <<>>))
    /\ UNCHANGED <<items, forms, blobs>>
    /\ FolderFrame

\* DELETE /folders/{path}: sanitize; firestore.delete_folder deletes the
\* folder document
DeleteFolderDoc ==
    /\ fop.pc = "idle"
    /\ fop.sent < MaxFolderOps
    /\ \E p \in FolderPaths :
         \/ /\ folders' = DeleteDocs(folders, {encode_path(p)})
            /\ fop' = [NewFolderOp("delete", p, <<>>) EXCEPT !.pc = "del_sub"]
         \/ /\ UNCHANGED folders
            /\ fop' = StoreRaised(NewFolderOp("delete", p, <<>>))
    /\ UNCHANGED <<items, forms, blobs>>
    /\ FolderFrame

\* the subfolder documents: one query, one batch, one commit
DeleteSubfolders ==
    /\ fop.pc = "del_sub"
    /\ LET ids == SubfolderIds(folders, fop.path) IN
         \/ /\ folders' = DeleteDocs(folders, ids)
            /\ fop' = [Commit(fop, "imagefolders", Cardinality(ids))
                          EXCEPT !.pc = "query", !.col = "imagedetail"]
         \/ /\ UNCHANGED folders
            /\ fop' = StoreRaised(fop)
    /\ UNCHANGED <<items, forms, blobs>>
    /\ FolderFrame

\* imgs = db.collection(col).where(...).where(...).stream()
QueryItems ==
    /\ fop.pc = "query"
    /\ \/ LET coll == CollOf(fop.col) IN
          fop' = [fop EXCEPT !.pc = "loop",
                             !.stream = ItemIds(coll, fop.path),
                             !.pos = 0, !.count = 0, !.batch = {}]
       \/ fop' = StoreRaised(fop)
    /\ UNCHANGED <<items, forms, blobs, folders>>
    /\ FolderFrame

\* batch.commit() of item deletes on the collection being purged
CommitDeletes(ids, after) ==
    \/ /\ IF fop.col = "imagedetail"
          THEN items' = DeleteDocs(items, ids) /\ UNCHANGED forms
          ELSE forms' = DeleteDocs(forms, ids) /\ UNCHANGED items
       /\ fop' = Commit(after, fop.col, Cardinality(ids))
    \/ /\ UNCHANGED <<items, forms>>
       /\ fop' = StoreRaised(fop)

\* one turn of `for img_doc in imgs`, or the code after the loop
DeleteLoop ==
    /\ fop.pc = "loop"
    /\ IF Rest(fop.stream, fop.pos) # {}
       THEN LET doc == NextDoc(fop.stream, fop.pos)
                batch == fop.batch \cup {doc}
                count == fop.count + 1
            IN IF BatchFull(count)
               THEN CommitDeletes(batch,
                        [fop EXCEPT !.pos = doc, !.batch = {}, !.count = 0])
               ELSE /\ fop' = [fop EXCEPT !.pos = doc, !.batch = batch,
                                          !.count = count]
                    /\ UNCHANGED <<items, forms>>
       ELSE LET next == IF fop.col = "imagedetail"
                        THEN [fop EXCEPT !.pc = "query",
                                         !.col = "forminformation",
                                         !.batch = {}, !.count = 0]
                        ELSE [fop EXCEPT !.pc = "blob_list",
                                         !.batch = {}, !.count = 0]
            IN IF fop.count > 0
               THEN CommitDeletes(fop.batch, next)
               ELSE /\ fop' = next
                    /\ UNCHANGED <<items, forms>>
    /\ UNCHANGED <<blobs, folders>>
    /\ FolderFrame

\* POST /folders/rename: sanitize both; firestore.rename_folder builds one
\* batch (the folder document moved, the items of the folder updated) and
\* commits it
RenameFolders(coll, old, new) ==
    IF encode_path(old) \in DOMAIN coll
    THEN DeleteDocs(
             [k \in DOMAIN coll \cup {encode_path(new)} |->
                 IF k = encode_path(new)
                 THEN [FolderPath |-> new,
                       CreatedAt |-> coll[encode_path(old)].CreatedAt]
                 ELSE coll[k]],
             {encode_path(old)})
    ELSE coll

RenameItems(coll, old, new) ==
    [k \in DOMAIN coll |->
        IF k \in RenameIds(coll, old)
        THEN [coll[k] EXCEPT !.FolderPath = new]
        ELSE coll[k]]

RenameOps(old) ==
    (IF encode_path(old) \in DOMAIN folders THEN 2 ELSE 0)
    + Cardinality(RenameIds(items, old))

RenameCommit ==
    /\ fop.pc = "idle"
    /\ fop.sent < MaxFolderOps
    /\ \E old \in FolderPaths, new \in FolderPaths :
         \/ /\ folders' = RenameFolders(folders, old, new)
            /\ items' = RenameItems(items, old, new)
            /\ fop' = [Commit(NewFolderOp("rename", old, new), "rename",
                              RenameOps(old))
                          EXCEPT !.pc = "blob_list"]
         \/ /\ UNCHANGED <<folders, items>>
            /\ fop' = StoreRaised(NewFolderOp("rename", old, new))
    /\ UNCHANGED <<forms, blobs>>
    /\ FolderFrame

\* blobs = bucket.list_blobs(prefix=...) of delete_blobs_with_prefix and of
\* ggc_storage.rename_folder
BlobList ==
    /\ fop.pc = "blob_list"
    /\ \/ LET listed == list_blobs(blobs, fop.path \o <<Slash>>) IN
          fop' = IF DOMAIN listed = {}
                 THEN Returned([fop EXCEPT !.listed = listed])
                 ELSE [fop EXCEPT !.listed = listed,
                          !.keys = SortKeys(DOMAIN listed), !.pos = 0,
                          !.pc = IF fop.kind = "rename" THEN "blob_copy"
                                 ELSE "blob_delete"]
       \/ fop' = [fop EXCEPT !.pc = "idle", !.resp = "error"]
    /\ UNCHANGED <<items, forms, blobs, folders>>
    /\ FolderFrame

\* bucket.copy_blob(blob, bucket, new_name)
BlobCopy ==
    /\ fop.pc = "blob_copy"
    /\ LET key == fop.keys[fop.pos + 1] IN
         \/ /\ key \in DOMAIN blobs
            /\ blobs' = copy_blob(blobs, key,
                            NewName(key, fop.path \o <<Slash>>,
                                    fop.new \o <<Slash>>))
            /\ fop' = [fop EXCEPT !.pc = "blob_delete"]
         \/ /\ UNCHANGED blobs
            /\ fop' = [fop EXCEPT !.pc = "idle", !.resp = "error"]
    /\ UNCHANGED <<items, forms, folders>>
    /\ FolderFrame

\* blob.delete()
BlobDelete ==
    /\ fop.pc = "blob_delete"
    /\ LET key == fop.keys[fop.pos + 1]
           after == [fop EXCEPT !.pos = @ + 1,
                        !.pc = IF fop.kind = "rename" THEN "blob_copy"
                               ELSE "blob_delete"]
       IN \/ /\ key \in DOMAIN blobs
             /\ blobs' = DeleteDocs(blobs, {key})
             /\ fop' = IF after.pos = Len(fop.keys) THEN Returned(after)
                       ELSE after
          \/ /\ UNCHANGED blobs
             /\ fop' = [fop EXCEPT !.pc = "idle", !.resp = "error"]
    /\ UNCHANGED <<items, forms, folders>>
    /\ FolderFrame

FolderNext ==
    \/ create_folder
    \/ DeleteFolderDoc
    \/ DeleteSubfolders
    \/ QueryItems
    \/ DeleteLoop
    \/ RenameCommit
    \/ BlobList
    \/ BlobCopy
    \/ BlobDelete

\* an item document / an extraction document of the folder tree
FolderItem(k, folder) ==
    ImageData("Uploaded", k, "", "t1", folder, UploadedSize)
FolderForm(k, folder) ==
    FormDoc(k, "", "t1", folder, UploadedSize, [type |-> "dict", tag |-> "fields"])

FolderRecord(p) == [FolderPath |-> p, CreatedAt |-> 0]

\* the other parts of the system are at rest
JobsIdle ==
    /\ files = [n \in {} |-> ""]
    /\ uptemp = {}
    /\ hpc = [r \in Requests |-> "unsent"]
    /\ data = [r \in Requests |-> NoData]
    /\ hexisting = [r \in Requests |-> <<>>]
    /\ hresp = [r \in Requests |-> "none"]
    /\ hwarn = [r \in Requests |-> FALSE]
    /\ jpc = [r \in Requests |-> "none"]
    /\ jexisting = [r \in Requests |-> [bound |-> FALSE, doc |-> <<>>]]
    /\ jresult = [r \in Requests |-> NoResult]
    /\ jsize = [r \in Requests |-> 0]
    /\ jerr = [r \in Requests |-> "none"]
    /\ upc = [u \in Uploads |-> "idle"]
    /\ udata = [u \in Uploads |->
                  [status |-> "", folder |-> "", ext |-> "", name |-> ""]]
    /\ backend = [id \in TaskIds |-> NoMeta]
    /\ lastPoll = [id \in TaskIds |-> "none"]

\* a small folder tree: folders "a", "a/b" and "a/" + U+FF21, items in "a",
\* in "a/b", in "b", in "ab" and in the root, two of them extracted, and the
\* object of every item
TreeFolderOf ==
    [k \in 1..5 |->
        CASE k = 1 -> PathA
          [] k = 2 -> PathAB
          [] k = 3 -> PathB
          [] k = 4 -> PathSibling
          [] OTHER -> <<>>]

\* destination_blob_name of the upload that created the item: the folder,
\* "/", the name (every object of the tree is named "x")
TreeKey(folder) ==
    IF folder # <<>> THEN folder \o <<Slash>> \o NameX ELSE NameX

\* the item record of the tree: ImagePath is the URL of its object, written
\* as the object key (the URL is the bucket URL followed by the key)
TreeItem(k) ==
    [FolderItem(k, TreeFolderOf[k]) EXCEPT
        !.ImagePath = TreeKey(TreeFolderOf[k])]

InitTree ==
    /\ items = [k \in 1..5 |-> TreeItem(k)]
    /\ forms = [k \in 1..2 |-> FolderForm(k, TreeFolderOf[k])]
    /\ blobs = [key \in {TreeKey(TreeFolderOf[k]) : k \in 1..5} |->
                   "bytes_" \o ToString(CHOOSE k \in 1..5 :
                                            TreeKey(TreeFolderOf[k]) = key)]
    /\ folders = [id \in {encode_path(PathA), encode_path(PathAB),
                          encode_path(PathAWide)} |->
                     FolderRecord(CHOOSE p \in FolderPaths :
                                      encode_path(p) = id /\ p # PathAUnderB)]
    /\ fop = NoFolderOp
    /\ clock = 0
    /\ crud = NoCrud
    /\ JobsIdle

SpecFolder == InitTree /\ [][FolderNext]_vars

\* one big folder tree: n items in "a" and below it (one in "a/b", one in
\* "a/" + U+FF21, the others in "a"), all extracted, one item in "b", and one
\* object; a single folder request is served
ItemCounts == {1, BatchSize - 1, BatchSize, BatchSize + 1, MaxItems}

BulkFolderOf(k, n) ==
    CASE k = n + 1 -> PathB
      [] k = 1     -> PathAB
      [] k = 2     -> PathAWide
      [] OTHER     -> PathA

InitBulk ==
    /\ \E n \in ItemCounts :
         /\ items = [k \in 1..(n + 1) |-> FolderItem(k, BulkFolderOf(k, n))]
         /\ forms = [k \in 1..(n + 1) |-> FolderForm(k, BulkFolderOf(k, n))]
    /\ blobs = [key \in {PathA \o <<Slash>> \o NameX} |-> "bytes_1"]
    /\ folders = [id \in {encode_path(PathA), encode_path(PathAB)} |->
                     FolderRecord(CHOOSE p \in FolderPaths :
                                      encode_path(p) = id /\ p # PathAUnderB)]
    /\ fop = [NoFolderOp EXCEPT !.sent = MaxFolderOps - 1]
    /\ clock = 0
    /\ crud = NoCrud
    /\ JobsIdle

SpecBulk == InitBulk /\ [][FolderNext]_vars

\* ---- concurrent uploads and the clock ------------------------------------
\* a millisecond passes
Tick ==
    /\ clock < MaxClock
    /\ clock' = clock + 1
    /\ UNCHANGED <<storeVars, handlerVars, jobVars, uploadVars, backend,
                   lastPoll, folderVars, crud>>

\* one uploaded item, no request sent yet
InitAtRest ==
    /\ Init!1 /\ Init!2 /\ Init!3
    /\ JobsIdle
    /\ folders = NoFolders
    /\ fop = NoFolderOp
    /\ clock = 0
    /\ crud = NoCrud

SpecNames == InitAtRest /\ [][UploadNext \/ Tick]_vars

\* ---- /images/ (main.py create_or_update_image, read_image, remove_image) -
ImageDataFields ==
    {"Status", "ImageName", "ImagePath", "CreatedAt", "FolderPath", "Size"}

\* the request body parsed as ImageData: an absent optional field takes its
\* default (FolderPath: str = "", Size: float = 0.0), a field that ImageData
\* does not have is dropped
ParseImageData(body) ==
    LET v(f) == IF f \in DOMAIN body THEN body[f]
                ELSE IF f = "Size" THEN 0 ELSE ""
    IN ImageData(v("Status"), v("ImageName"), v("ImagePath"), v("CreatedAt"),
                 v("FolderPath"), v("Size"))

\* the bodies the clients post: every field different from the record of
\* the initial state; with all fields, without the optional fields, and
\* with a field that ImageData does not have
ItemNames == {"t1.jpg", "t2.jpg"}

SparseBody(n, status) ==
    [Status |-> status, ImageName |-> n, ImagePath |-> GcsUrl("f", n),
     CreatedAt |-> "t9"]
FullBody(n, status) ==
    [Status |-> status, ImageName |-> n, ImagePath |-> GcsUrl("f", n),
     CreatedAt |-> "t9", FolderPath |-> "f", Size |-> 7]
ExtraBody(n, status) ==
    [Status |-> status, ImageName |-> n, ImagePath |-> GcsUrl("f", n),
     CreatedAt |-> "t9", FolderPath |-> "f", Size |-> 7, Note |-> "x"]

ItemBodies ==
    UNION {{SparseBody(n, st), FullBody(n, st), ExtraBody(n, st)} :
              n \in ItemNames, st \in {"Completed", "Failed"}}

\* db.collection(collection_name).document(image_name).delete()
delete_image(coll, name) == [k \in DOMAIN coll \ {name} |-> coll[k]]

ItemFrame ==
    UNCHANGED <<forms, blobs, files, uptemp, handlerVars, jobVars,
                uploadVars, backend, lastPoll, folderVars, clock>>

\* POST /images/: upsert_image(data, "imagedetail", data.ImageName)
create_or_update_image ==
    /\ \E body \in ItemBodies :
         LET image_data == ParseImageData(body) IN
         \/ /\ items' = upsert_image(items, image_data, image_data.ImageName)
            /\ crud' = [kind |-> "upsert", name |-> image_data.ImageName,
                        doc |-> <<image_data>>, resp |-> <<"saved">>]
         \/ /\ UNCHANGED items
            /\ crud' = [kind |-> "upsert", name |-> image_data.ImageName,
                        doc |-> <<image_data>>, resp |-> <<"error">>]
    /\ ItemFrame

\* GET /images/{image_name}: get_image; 404 when there is no document
read_image ==
    /\ \E n \in ItemNames :
         crud' = [kind |-> "get", name |-> n, doc |-> <<>>,
                  resp |-> get_image(items, n)]
    /\ UNCHANGED items
    /\ ItemFrame

\* DELETE /images/{image_name}: delete_image(image_name, "imagedetail")
remove_image ==
    /\ \E n \in ItemNames :
         \/ /\ items' = delete_image(items, n)
            /\ crud' = [kind |-> "delete", name |-> n, doc |-> <<>>,
                        resp |-> <<"deleted">>]
         \/ /\ UNCHANGED items
            /\ crud' = [kind |-> "delete", name |-> n, doc |-> <<>>,
                        resp |-> <<"error">>]
    /\ ItemFrame

\* the item endpoints alone
SpecItems ==
    InitAtRest /\ [][create_or_update_image \/ read_image \/ remove_image]_vars

\* item deletes next to extraction requests
SpecDelete == InitSide /\ [][ExtractNext \/ remove_image]_vars

\* ==== properties =========================================================
NameOf(r) == data[r].ImageName

Terminal == {"SUCCESS", "FAILURE"}

\* ---- C1 -----------------------------------------------------------------
\* C1 as stated: at the step in which an extract task finishes in SUCCESS the
\* item record of its name has status "Completed" and an extraction record
\* of that name exists.
C1_AsStated ==
    [][\A r \in Requests :
         (jpc[r] = "cleanup" /\ jpc'[r] = "done")
           => /\ NameOf(r) \in DOMAIN items'
              /\ items'[NameOf(r)].Status = "Completed"
              /\ NameOf(r) \in DOMAIN forms']_vars

\* C1 (amended): an extract task finishes in SUCCESS only after it has
\* written, as its last two store writes, the extraction record of its name
\* (status "Completed", the engine value stored as a mapping, a non-mapping
\* value wrapped) and then the item record with status "Completed"; each
\* record is in the store the moment the task has written it.
C1_FinalWrites ==
    [][\A r \in Requests :
         /\ (jpc[r] = "save_form" /\ jpc'[r] = "save_item")
              => /\ NameOf(r) \in DOMAIN forms'
                 /\ forms'[NameOf(r)].Status = "Completed"
                 /\ forms'[NameOf(r)].analysis_result.type = "dict"
         /\ (jpc[r] = "save_item" /\ jpc'[r] = "cleanup")
              => /\ NameOf(r) \in DOMAIN items'
                 /\ items'[NameOf(r)].Status = "Completed"
         /\ (jpc'[r] = "done" /\ jpc[r] # "done") => jpc[r] = "cleanup"
         /\ (jpc'[r] = "cleanup" /\ jpc[r] # "cleanup") => jpc[r] = "save_item"
         /\ (jpc'[r] = "save_item" /\ jpc[r] # "save_item")
              => jpc[r] = "save_form"]_vars

\* a task has finished in SUCCESS on a non-mapping engine value: the wrapped
\* value is in the extraction record and the item record is Completed
C1_Witness ==
    \E r \in Requests :
        /\ jpc[r] = "done"
        /\ NameOf(r) \in DOMAIN forms
        /\ forms[NameOf(r)].analysis_result.tag = "raw"
        /\ items[NameOf(r)].Status = "Completed"

\* ---- C2 -----------------------------------------------------------------
\* C2: a queue-extract request whose name has no item record is answered
\* with the 404 rejection; the step writes no record and enqueues no task,
\* and no task is ever enqueued for the rejected request.
C2_MissingItemRejected ==
    [][\A r \in Requests :
         /\ (hpc[r] = "idle" /\ hpc'[r] # "idle"
               /\ NameOf(r)' \notin DOMAIN items)
              => /\ hresp'[r] = "not_found"
                 /\ hpc'[r] = "done"
                 /\ UNCHANGED <<items, forms, jpc, backend>>
         /\ hresp[r] = "not_found"
              => hresp'[r] = "not_found" /\ jpc'[r] = "none"]_vars

\* a request for the name that was never uploaded has been rejected
C2_Witness ==
    \E r \in Requests :
        /\ hresp[r] = "not_found"
        /\ NameOf(r) = "t2.jpg"
        /\ NameOf(r) \notin DOMAIN items
        /\ jpc[r] = "none"

\* ---- C3 -----------------------------------------------------------------
\* C3: a queue-extract request that finds the stored status "Processing" is
\* answered already_processing; the step leaves the item records, the
\* extraction records and the tasks unchanged and no task is ever enqueued
\* for that request.
C3_AlreadyProcessingNoOp ==
    [][\A r \in Requests :
         /\ (hpc[r] = "idle" /\ hpc'[r] # "idle"
               /\ NameOf(r)' \in DOMAIN items
               /\ items[NameOf(r)'].Status = "Processing")
              => /\ hresp'[r] = "already_processing"
                 /\ hpc'[r] = "done"
                 /\ UNCHANGED <<items, forms, jpc, backend>>
         /\ hresp[r] = "already_processing"
              => hresp'[r] = "already_processing" /\ jpc'[r] = "none"]_vars

\* a request has been answered already_processing while another request for
\* the same item is in flight
C3_Witness ==
    \E r, q \in Requests :
        /\ r # q
        /\ hresp[r] = "already_processing"
        /\ NameOf(q) = NameOf(r)
        /\ JobState(q) \in {"PENDING", "STARTED"}
        /\ jpc[r] = "none"

C5_NoCompensatingWrite ==
    [][\A r \in Requests :
         /\ (jpc'[r] = "fail_cleanup" /\ jpc[r] # "fail_cleanup")
              => UNCHANGED <<items, forms>>
         /\ (jpc[r] = "fail_cleanup" /\ jpc'[r] # "fail_cleanup")
              => jpc'[r] = "failed" /\ UNCHANGED <<items, forms>>
         /\ jpc[r] = "failed" => jpc'[r] = "failed"]_vars

\* a task has failed after a Processing mark: the record is still Processing
C5_Witness ==
    \E r \in Requests :
        /\ jpc[r] = "failed"
        /\ backend[ExtractTaskId(r)].state = "FAILURE"
        /\ items[NameOf(r)].Status = "Processing"

\* ---- C6 -----------------------------------------------------------------
\* C6 as stated (read in the code's favour: a run still in progress counts):
\* an extraction record of a name exists only if an extract task of that name
\* has finished in SUCCESS or is still running.
C6_AsStated ==
    \A n \in DOMAIN forms :
        \E r \in Requests :
            NameOf(r) = n /\ JobState(r) \in {"STARTED", "SUCCESS"}

\* ---- C7 -----------------------------------------------------------------
\* C7 as stated (read in the code's favour: an accepted request that is
\* about to enqueue counts): an item record has status "Processing" only if
\* an extract task of that item is PENDING or STARTED.
C7_AsStated ==
    \A n \in DOMAIN items :
        items[n].Status = "Processing"
          => \E r \in Requests :
                 /\ NameOf(r) = n
                 /\ \/ hpc[r] = "enqueue"
                    \/ JobState(r) \in {"PENDING", "STARTED"}

\* ---- C8 -----------------------------------------------------------------
\* C8 as stated: an extract task ends in FAILURE only when the download, the
\* write of the extraction record or the write of the item record raised.
C8_AsStated ==
    [][\A r \in Requests :
         (jpc[r] = "fail_cleanup" /\ jpc'[r] = "failed")
           => jerr[r] \in {"download", "save_form", "save_item"}]_vars

\* C8 (amended): an extract task ends in FAILURE only when a transport/IO
\* step raised: the download, the engine call (transport error or unreadable
\* temp file), the fallback read of the item record for the size, or the
\* write of the extraction record or of the item record.  Every value the
\* engine returns is turned into a mapping and never fails the task, and once
\* the two final writes have succeeded the task ends in SUCCESS.
C8_FailureOnlyOnIO ==
    [][\A r \in Requests :
         /\ (jpc[r] = "fail_cleanup" /\ jpc'[r] = "failed")
              => jerr[r] \in {"download", "engine", "store_read",
                              "save_form", "save_item"}
         /\ (jpc[r] = "analyze" /\ jpc'[r] \in {"size_read", "save_form"})
              => jresult'[r].type = "dict"
         /\ (jpc[r] = "cleanup" /\ jpc'[r] # "cleanup") => jpc'[r] = "done"
         /\ (jpc'[r] = "done" /\ jpc[r] # "done")
              => backend'[ExtractTaskId(r)].state = "SUCCESS"]_vars

\* a task is failing because the engine call raised on a downloaded file
C8_Witness ==
    \E r \in Requests :
        /\ jpc[r] = "fail_cleanup"
        /\ jerr[r] = "engine"
        /\ NameOf(r) \in DOMAIN files

\* ---- C9 -----------------------------------------------------------------
\* C9 as stated: once an upload task or an extract task has reached a
\* terminal state its local temp file no longer exists.
C9_AsStated ==
    /\ \A u \in Uploads : upc[u] \in {"done", "failed"} => u \notin uptemp
    /\ \A r \in Requests :
         (jpc[r] \in {"done", "failed"}
            /\ \A q \in Requests \ {r} :
                 NameOf(q) = NameOf(r) => JobState(q) # "STARTED")
           => NameOf(r) \notin DOMAIN files

\* ---- C10 ----------------------------------------------------------------
PollRank(st) ==
    CASE st = "none"    -> 0
      [] st = "PENDING" -> 1
      [] st = "STARTED" -> 2
      [] OTHER          -> 3

\* C10 as stated: successive polls of a task id never return an earlier
\* state, and after a poll has returned SUCCESS or FAILURE every later poll
\* returns the same state.
C10_AsStated ==
    [][\A id \in TaskIds :
         /\ PollRank(lastPoll'[id]) >= PollRank(lastPoll[id])
         /\ lastPoll[id] \in Terminal => lastPoll'[id] = lastPoll[id]]_vars

\* C10 (amended): successive polls of a task id only move forward along
\* PENDING -> STARTED -> SUCCESS | FAILURE and repeat a terminal state, until
\* the stored result expires (result_expires, one hour); from then on every
\* poll of that id returns PENDING.
C10_ForwardUntilExpiry ==
    [][\A id \in TaskIds :
         /\ lastPoll'[id] # lastPoll[id]
              => \/ /\ PollRank(lastPoll'[id]) >= PollRank(lastPoll[id])
                    /\ lastPoll[id] \notin Terminal
                 \/ /\ backend[id] = Expired
                    /\ lastPoll'[id] = "PENDING"
         /\ backend[id] = Expired => backend'[id] = Expired]_vars

\* a poll of a finished task has returned SUCCESS and its stored result has
\* expired since: the next poll of that id returns PENDING
C10_Witness ==
    \E r \in Requests :
        /\ jpc[r] = "done"
        /\ backend[ExtractTaskId(r)] = Expired
        /\ lastPoll[ExtractTaskId(r)] = "SUCCESS"

\* ---- C11 ----------------------------------------------------------------
UploadState(u) ==
    CASE upc[u] \in {"idle", "unsent", "rejected"} -> "NONE"
      [] upc[u] = "queued"               -> "PENDING"
      [] upc[u] \in UploadRunningPcs     -> "STARTED"
      [] upc[u] = "done"                 -> "SUCCESS"
      [] OTHER                           -> "FAILURE"

\* C11: under fair scheduling of the worker pool, from a queue that holds
\* more tasks than the pool has workers, eventually every enqueued extract
\* and upload task has ended in SUCCESS or FAILURE, stored as such in the
\* result backend, and stays so; a task leaves the queue only by being
\* picked up (STARTED) and leaves a run only by ending: no step cancels it.
C11_EveryJobTerminates ==
    /\ <>[](/\ \A r \in Requests :
                JobState(r) = "NONE"
                \/ /\ JobState(r) \in Terminal
                   /\ backend[ExtractTaskId(r)].state = JobState(r)
            /\ \A u \in Uploads :
                UploadState(u) = "NONE"
                \/ /\ UploadState(u) \in Terminal
                   /\ backend[UploadTaskId(u)].state = UploadState(u))
    /\ [][/\ \A r \in Requests :
              /\ JobState(r) = "PENDING"
                   => JobState(r)' \in {"PENDING", "STARTED"}
              /\ JobState(r) = "STARTED"
                   => JobState(r)' \in {"STARTED"} \cup Terminal
              /\ JobState(r) \in Terminal => JobState(r)' = JobState(r)
          /\ \A u \in Uploads :
              /\ UploadState(u) = "PENDING"
                   => UploadState(u)' \in {"PENDING", "STARTED"}
              /\ UploadState(u) = "STARTED"
                   => UploadState(u)' \in {"STARTED"} \cup Terminal
              /\ UploadState(u) \in Terminal
                   => UploadState(u)' = UploadState(u)]_vars

\* an extract task still waits in the queue while every worker of the pool
\* is in the middle of another task
C11_Witness ==
    /\ Busy = WorkerConcurrency
    /\ \E r \in Requests : JobState(r) = "PENDING"
    /\ \E r \in Requests : jpc[r] = "save_item"
    /\ \E u \in Uploads : upc[u] = "upsert"

\* ---- C12 ----------------------------------------------------------------
\* a folder request of the given kind has been answered with success
Completed(kind) == fop.kind = kind /\ fop.pc = "idle" /\ fop.resp = "ok"

\* C12 as stated: once folder delete of P has completed, folder list returns
\* neither P nor a path that starts with P + "/".
C12_AsStated ==
    Completed("delete")
      => \A q \in list_folders(folders) :
             q # fop.path /\ ~Descendant(q, fop.path)

\* ---- C13 ----------------------------------------------------------------
\* the sizes of the commits an operation has issued on a collection
RECURSIVE CommitSizes(_, _)
CommitSizes(log, col) ==
    IF log = <<>> THEN <<>>
    ELSE (IF log[1].col = col THEN <<log[1].n>> ELSE <<>>)
         \o CommitSizes(Tail(log), col)

\* C13: once folder delete of P has completed, neither the item collection
\* nor the extraction collection holds a record whose FolderPath is P or
\* starts with P + "/", however many records matched (more than one batch
\* included).
C13_NoResidualItems ==
    Completed("delete")
      => /\ \A k \in DOMAIN items :
              items[k].FolderPath # fop.path
              /\ ~Descendant(items[k].FolderPath, fop.path)
         /\ \A k \in DOMAIN forms :
              forms[k].FolderPath # fop.path
              /\ ~Descendant(forms[k].FolderPath, fop.path)

\* the delete of "a" has completed on a tree that held more than one batch
\* of items in and below "a": both collections were purged in several
\* commits and only the item of "b" is left in each
C13_Witness ==
    /\ Completed("delete")
    /\ fop.path = PathA
    /\ Len(CommitSizes(fop.commits, "imagedetail")) >= 2
    /\ Len(CommitSizes(fop.commits, "forminformation")) >= 2
    /\ Cardinality(DOMAIN items) = 1
    /\ Cardinality(DOMAIN forms) = 1

\* ---- C14 ----------------------------------------------------------------
CeilDiv(n, d) == (n + d - 1) \div d

\* the chunks of n deletes: full batches, then the remainder
ExpectedChunks(n) ==
    [i \in 1..CeilDiv(n, BatchSize) |->
        IF i * BatchSize <= n THEN BatchSize ELSE n - (i - 1) * BatchSize]

\* C14: folder delete removes the n records its scan of a collection matched
\* in chunks: the batch being filled never holds 450 deletes without being
\* committed, a commit removes exactly the records of its batch before the
\* next batch is started, no commit holds more than 450 deletes, and when
\* the loop over the collection is left ceil(n/450) commits have been
\* issued on it: full batches of 450, then the remainder.
C14_ChunkedCommits ==
    [][/\ fop'.pc = "loop"
           => /\ Cardinality(fop'.batch) < BatchSize
              /\ fop'.count = Cardinality(fop'.batch)
       /\ (fop.pc = "loop" /\ Len(fop'.commits) > Len(fop.commits))
           => LET ids == IF fop.col = "imagedetail"
                         THEN DOMAIN items \ DOMAIN items'
                         ELSE DOMAIN forms \ DOMAIN forms' IN
              /\ fop'.commits[Len(fop'.commits)] =
                     [col |-> fop.col, n |-> Cardinality(ids)]
              /\ Cardinality(ids) <= BatchSize
              /\ Cardinality(ids) > 0
              /\ fop'.batch = {}
       /\ (fop.pc = "loop" /\ fop'.pc \in {"query", "blob_list"})
           => CommitSizes(fop'.commits, fop.col) =
                  ExpectedChunks(Cardinality(fop.stream))]_vars

\* the delete of "a" has completed on the tree with MaxItems records in and
\* below "a": each collection was purged in a commit of 450 deletes followed
\* by a commit of the remainder
C14_Witness ==
    /\ Completed("delete")
    /\ fop.path = PathA
    /\ CommitSizes(fop.commits, "imagedetail")
           = <<BatchSize, MaxItems - BatchSize>>
    /\ CommitSizes(fop.commits, "forminformation")
           = <<BatchSize, MaxItems - BatchSize>>

\* ---- C15 ----------------------------------------------------------------
\* the step is the successful commit of firestore.rename_folder
RenameCommitted == fop.pc = "idle" /\ fop'.kind = "rename" /\ fop'.pc = "blob_list"

FolderRecordOf(coll, p) ==
    IF \E k \in DOMAIN coll : coll[k].FolderPath = p
    THEN <<coll[CHOOSE k \in DOMAIN coll : coll[k].FolderPath = p]>>
    ELSE <<>>

\* C16 as stated (for distinct paths): when a folder record of old exists,
\* the commit of folder rename leaves a folder record with path new that
\* carries old's CreatedAt and no folder record of old.
C16_AsStated ==
    [][(RenameCommitted
          /\ fop'.path # fop'.new
          /\ FolderRecordOf(folders, fop'.path) # <<>>)
        => /\ FolderRecordOf(folders', fop'.new) # <<>>
           /\ FolderRecordOf(folders', fop'.new)[1].CreatedAt
                  = FolderRecordOf(folders, fop'.path)[1].CreatedAt
           /\ FolderRecordOf(folders', fop'.path) = <<>>]_vars

\* ---- C17 ----------------------------------------------------------------
\* C17 as stated: creating a folder whose record exists succeeds and leaves
\* the folder record (FolderPath and CreatedAt) and every other record
\* unchanged.
C17_AsStated ==
    [][(fop.pc = "idle" /\ fop'.kind = "create" /\ fop'.resp = "ok"
          /\ fop'.sent = fop.sent + 1
          /\ FolderRecordOf(folders, fop'.path) # <<>>)
        => UNCHANGED <<folders, items, forms, blobs>>]_vars

\* ---- C18 ----------------------------------------------------------------
BlobPcs == {"blob_list", "blob_copy", "blob_delete"}

\* C18: in folder delete and folder rename the blob phase is entered only
\* when every metadata-store mutation of the request has been committed
\* (after the commit of rename, after the loop over the last collection of
\* delete); a step of the blob phase changes no folder, item or extraction
\* record and is followed by the blob phase or the answer; the bucket is
\* changed by steps of the blob phase only; a metadata-store call that raises
\* ends the request with an error and the bucket untouched.
C18_StoreBeforeBlobs ==
    [][/\ (fop'.pc = "blob_list" /\ fop.pc # "blob_list")
           => \/ RenameCommitted /\ Len(fop'.commits) = 1
              \/ /\ fop.kind = "delete" /\ fop.pc = "loop"
                 /\ fop.col = "forminformation"
                 /\ Rest(fop.stream, fop.pos) = {}
                 /\ Len(fop'.commits) >= 1
       /\ fop.pc \in BlobPcs
           => /\ UNCHANGED <<folders, items, forms>>
              /\ fop'.pc \in BlobPcs \cup {"idle"}
              /\ fop'.kind = fop.kind /\ fop'.sent = fop.sent
       /\ blobs' # blobs => fop.pc \in {"blob_copy", "blob_delete"}
       /\ (fop.pc \notin BlobPcs /\ fop'.resp = "error")
           => /\ fop'.pc = "idle"
              /\ UNCHANGED <<folders, items, forms, blobs>>
       /\ (fop.kind \in {"delete", "rename"} /\ fop.pc = "idle")
           => (fop'.kind = fop.kind /\ fop'.sent = fop.sent => blobs' = blobs)]_vars

\* the delete of "a" has committed its metadata-store mutations and has
\* deleted the first of the two objects below "a/"
C18_Witness ==
    /\ fop.kind = "delete" /\ fop.path = PathA
    /\ fop.pc = "blob_delete" /\ fop.pos = 1
    /\ Len(fop.commits) = 3
    /\ \A k \in DOMAIN items : ~InRange(items[k].FolderPath, PathA, PathA \o <<Sentinel>>)
    /\ Cardinality(DOMAIN blobs) = 4

\* ---- C19 ----------------------------------------------------------------
\* C19: every batch commit of a folder operation (the deletes of the
\* descendant folder records, the item deletes, the folder-record move with
\* the item updates of rename) holds at most 500 writes.
C19_AsStated ==
    \A i \in 1..Len(fop.commits) : fop.commits[i].n <= 500

\* ---- C20 ----------------------------------------------------------------
\* C20 as stated: once the rename from old to new has completed, every
\* object the bucket held at old + "/" + s before the blob phase is at
\* new + "/" + s with the same content, and every object left below
\* old + "/" was put there by the rename.
C20_AsStated ==
    Completed("rename")
      => LET old_prefix == fop.path \o <<Slash>>
             new_prefix == fop.new \o <<Slash>>
             moved == {NewName(k, old_prefix, new_prefix) :
                          k \in DOMAIN fop.listed}
         IN /\ \A k \in DOMAIN fop.listed :
                 LET new_name == NewName(k, old_prefix, new_prefix) IN
                   /\ new_name \in DOMAIN blobs
                   /\ blobs[new_name] = fop.listed[k]
            /\ \A k \in DOMAIN blobs :
                 StartsWith(k, old_prefix) => k \in moved

\* ---- C24 ----------------------------------------------------------------
\* C24: a queue-extract request for an existing item that is not
\* "Processing" goes to the Processing write; whether the write stores the
\* Processing record or raises (the warning is logged), the request goes on
\* to enqueue its task, exactly once, and answers "queued"; a task is
\* enqueued by that step only; the task's own Processing re-mark, read or
\* write, succeeding or raising, is followed by the download and never by
\* the except branch.
C24_MarkNonFatal ==
    [][\A r \in Requests :
         /\ (hpc[r] = "idle" /\ hpc'[r] # "idle")
              => LET existing == get_image(items, data'[r].ImageName) IN
                 (existing # <<>> /\ existing[1].Status # "Processing")
                     <=> hpc'[r] = "mark"
         /\ (hpc[r] = "mark" /\ hpc'[r] # "mark")
              => /\ hpc'[r] = "enqueue"
                 /\ jpc'[r] = "none"
                 /\ \/ /\ NameOf(r) \in DOMAIN items'
                       /\ items'[NameOf(r)].Status = "Processing"
                       /\ hwarn'[r] = hwarn[r]
                    \/ items' = items /\ hwarn'[r]
         /\ (hpc[r] = "enqueue" /\ hpc'[r] # "enqueue")
              => /\ hpc'[r] = "done" /\ hresp'[r] = "queued"
                 /\ jpc[r] = "none" /\ jpc'[r] = "queued"
                 /\ items' = items
         /\ (jpc'[r] = "queued" /\ jpc[r] # "queued") => hpc[r] = "enqueue"
         /\ (hpc[r] = "done") => hpc'[r] = "done"
         /\ (jpc[r] \in {"mark_read", "mark_write"} /\ jpc'[r] # jpc[r])
              => jpc'[r] \in {"mark_write", "download"} /\ jerr'[r] = "none"]_vars

\* the handler's Processing write raised and the task's re-mark failed too:
\* the item is still "Uploaded", the task was enqueued and is past its
\* download
C24_Witness ==
    \E r \in Requests :
        /\ hwarn[r] /\ hresp[r] = "queued"
        /\ jpc[r] = "analyze"
        /\ NameOf(r) \in DOMAIN items
        /\ items[NameOf(r)].Status = "Uploaded"

\* ---- C27 ----------------------------------------------------------------
\* C27 as stated: the final write of a successful extract task leaves the
\* ImagePath, the FolderPath and the CreatedAt of the item record as they
\* were stored immediately before that write.
C27_AsStated ==
    [][\A r \in Requests :
         (jpc[r] = "save_item" /\ jpc'[r] = "cleanup"
            /\ NameOf(r) \in DOMAIN items)
           => /\ items'[NameOf(r)].ImagePath = items[NameOf(r)].ImagePath
              /\ items'[NameOf(r)].FolderPath = items[NameOf(r)].FolderPath
              /\ items'[NameOf(r)].CreatedAt = items[NameOf(r)].CreatedAt]_vars

\* ---- C23 ----------------------------------------------------------------
\* C23: two extract tasks of the same item name have the same local temp
\* path; the download of one replaces the file the other has downloaded, and
\* when one finishes (cleanup or except branch) while the other is between
\* its download and its engine call, the file of the other is gone and the
\* other can only fail in its engine call.
C23_SharedTempPath ==
    [][\A r1 \in Requests :
         /\ \A r2 \in Requests \ {r1} :
              (NameOf(r1) = NameOf(r2) /\ jpc[r1] = "analyze")
                => /\ local_path(r1) = local_path(r2)
                   /\ (jpc[r2] \in {"cleanup", "fail_cleanup"}
                         /\ jpc'[r2] # jpc[r2])
                        => /\ local_path(r1) \notin DOMAIN files'
                           /\ jpc'[r1] = "analyze"
                   /\ (jpc[r2] = "download" /\ jpc'[r2] = "analyze")
                        => files'[local_path(r1)] = data[r2].ImagePath
         /\ (jpc[r1] = "analyze" /\ local_path(r1) \notin DOMAIN files
               /\ jpc'[r1] # "analyze")
              => jpc'[r1] = "fail_cleanup" /\ jerr'[r1] = "engine"]_vars

\* a task is between its download and its engine call and its file has been
\* removed by another task of the same name, which has finished
C23_Witness ==
    \E r1 \in Requests : \E r2 \in Requests \ {r1} :
        /\ NameOf(r1) = NameOf(r2)
        /\ jpc[r1] = "analyze"
        /\ local_path(r1) \notin DOMAIN files
        /\ jpc[r2] \in {"done", "failed"}

\* ---- C25 ----------------------------------------------------------------
\* C25 as stated: no step of the folder delete of P removes or changes an
\* item record or an extraction record whose FolderPath is neither P nor
\* starts with P + "/".
C25_AsStated ==
    [][fop'.kind = "delete"
         => LET Outside(d) == d.FolderPath # fop'.path
                               /\ ~Descendant(d.FolderPath, fop'.path)
            IN /\ \A k \in DOMAIN items :
                    Outside(items[k])
                      => k \in DOMAIN items' /\ items'[k] = items[k]
               /\ \A k \in DOMAIN forms :
                    Outside(forms[k])
                      => k \in DOMAIN forms' /\ forms'[k] = forms[k]]_vars

\* ---- C30 ----------------------------------------------------------------
\* C30 as stated: a step of the create, rename or delete of folder P leaves
\* every folder record of a path Q # P listed (for delete: every Q that is
\* neither P nor below P).
C30_AsStated ==
    [][fop'.kind \in {"create", "delete", "rename"}
         => \A q \in list_folders(folders) :
              (q # fop'.path
                 /\ ~(fop'.kind = "delete" /\ Descendant(q, fop'.path)))
                => q \in list_folders(folders')]_vars

\* ---- C26 ----------------------------------------------------------------
\* C26 as stated: when no folder request is being served, the ImagePath of
\* every item record designates an object of the bucket; after a completed
\* rename of A to B the ImagePath of every item of B designates an object
\* below B + "/".
C26_AsStated ==
    fop.pc = "idle"
      => /\ \A k \in DOMAIN items : items[k].ImagePath \in DOMAIN blobs
         /\ (Completed("rename") /\ fop.path # fop.new)
              => \A k \in DOMAIN items :
                   items[k].FolderPath = fop.new
                     => StartsWith(items[k].ImagePath, fop.new \o <<Slash>>)

\* ---- C21 ----------------------------------------------------------------
\* C21 as stated: two distinct upload tasks that have been given their item
\* names have different names.
C21_AsStated ==
    \A u, v \in Uploads :
        (u # v /\ udata[u].name # "" /\ udata[v].name # "")
          => udata[u].name # udata[v].name

\* ---- C22 ----------------------------------------------------------------
\* C22: an upsert stores the record under its name as the whole document
\* (every other document is left as it was), and a get of that name that
\* follows it with no write in between returns a record equal to the one
\* written.
C22_RoundTrip ==
    [][/\ (crud'.kind = "upsert" /\ crud'.resp = <<"saved">>)
           => /\ get_image(items', crud'.name) = crud'.doc
              /\ \A k \in DOMAIN items \ {crud'.name} :
                   k \in DOMAIN items' /\ items'[k] = items[k]
       /\ (crud.kind = "upsert" /\ crud.resp = <<"saved">>
             /\ crud'.kind = "get" /\ crud'.name = crud.name)
           => crud'.resp = crud.doc]_vars

\* the record of the initial state has been replaced by a record that
\* differs from it in every field but the name, and the get has returned it
C22_Witness ==
    /\ crud.kind = "get" /\ crud.name = "t1.jpg"
    /\ crud.resp = <<ParseImageData(FullBody("t1.jpg", "Completed"))>>
    /\ \A f \in ImageDataFields \ {"ImageName"} :
         crud.resp[1][f] # ImageData("Uploaded", "t1.jpg", GcsUrl("", "t1.jpg"),
                                     "t1", "", UploadedSize)[f]

\* ---- C28 ----------------------------------------------------------------
\* C28 as stated: a step of an extract task whose item record has been
\* deleted creates neither the item record nor an extraction record of that
\* name.
C28_AsStated ==
    [][\A r \in Requests :
         (jpc[r] \in RunningPcs /\ jpc'[r] # jpc[r]
            /\ NameOf(r) \notin DOMAIN items)
           => /\ NameOf(r) \notin DOMAIN items'
              /\ NameOf(r) \notin DOMAIN forms
                   => NameOf(r) \notin DOMAIN forms']_vars

\* ---- C29 ----------------------------------------------------------------
\* C29 as stated: when no request is being served and no task is queued or
\* running, every extraction record has an item record of its name.
C29_AsStated ==
    (/\ \A r \in Requests : hpc[r] \in {"idle", "unsent", "done"}
     /\ \A r \in Requests : jpc[r] \in {"none", "done", "failed"})
      => DOMAIN forms \subseteq DOMAIN items

====
